---------------------------- MODULE Spec2Model ----------------------------
(***************************************************************************)
(* Model of the alphabox word-game server: the "languages" service         *)
(* (dictionary store, src/services/languages.service.js) and the "games"   *)
(* service (level registry and find-words scoring, src/unnamed/part_001).  *)
(*                                                                         *)
(* Strings are sequences of one-character strings, so that toLowerCase,    *)
(* startsWith and Number are computed character by character.  A plain     *)
(* JavaScript object is a sequence of [key, value] entries kept in the     *)
(* engine's own-property order.                                            *)
(***************************************************************************)
EXTENDS Integers, Sequences, FiniteSets, TLC

VARIABLES dictionaries, games, req, boot, users, creating

vars == <<dictionaries, games, req, boot, users, creating>>

\* the startup of the two file-loading services, and the users service
Rest == <<boot, users, creating>>

---------------------------------------------------------------------------
(* Bounds of the model.                                                    *)

\* longest submitted word list of a request in the sequential specification
MaxWords == 3
\* longest submitted word list when two requests are in flight together
ParMaxWords == 1
\* most documents of the users collection (counting the creates in flight)
MaxUsers == 2

---------------------------------------------------------------------------
(* JavaScript strings.                                                     *)

Range(s) == { s[i] : i \in 1..Len(s) }

\* one character of String.prototype.toLowerCase
LowerChar(c) ==
    CASE c = "A" -> "a"
      [] c = "B" -> "b"
      [] c = "P" -> "p"
      [] c = "Z" -> "z"
      [] OTHER -> c

toLowerCase(s) == [i \in 1..Len(s) |-> LowerChar(s[i])]

startsWith(s, p) == Len(p) <= Len(s) /\ SubSeq(s, 1, Len(p)) = p

Digits == {"0", "1", "2", "3", "4", "5", "6", "7", "8", "9"}

DigitVal(c) ==
    CASE c = "0" -> 0 [] c = "1" -> 1 [] c = "2" -> 2 [] c = "3" -> 3
      [] c = "4" -> 4 [] c = "5" -> 5 [] c = "6" -> 6 [] c = "7" -> 7
      [] c = "8" -> 8 [] c = "9" -> 9

IsDigits(s) == \A i \in 1..Len(s) : s[i] \in Digits

RECURSIVE DecimalValue(_)
DecimalValue(s) ==
    IF Len(s) = 0 THEN 0
    ELSE DecimalValue(SubSeq(s, 1, Len(s) - 1)) * 10 + DigitVal(s[Len(s)])

\* NaN is represented by -1, which no digit string denotes.
NaN == 0 - 1

\* Number(string) for the strings of the model: decimal digits or not a number
JSNumber(s) == IF IsDigits(s) THEN DecimalValue(s) ELSE NaN

\* string >= number: the string is converted with Number; NaN compares false
JSGreaterEq(s, n) == JSNumber(s) # NaN /\ JSNumber(s) >= n

---------------------------------------------------------------------------
(* JavaScript values and plain objects.                                    *)

\* Values are tagged with their typeof: a primitive boolean, an object
\* wrapping a boolean (new Boolean), or undefined.
Prim(b) == [type |-> "boolean", value |-> b]

True == Prim(TRUE)

False == Prim(FALSE)

Undefined == [type |-> "undefined", value |-> FALSE]

\* new Boolean(v): a wrapper OBJECT around the primitive truth value of v
NewBoolean(b) == [type |-> "object", value |-> b]

\* ToBoolean: every object is truthy, whatever it wraps
Truthy(v) == v.type = "object" \/ (v.type = "boolean" /\ v.value)

\* a && b
JSAnd(a, b) == IF Truthy(a) THEN b ELSE a

\* what JSON.stringify sends for a boolean value (a wrapper is sent as its
\* primitive)
ToJSON(v) == v.type # "undefined" /\ v.value

\* ToNumber of a boolean value, as in  results[word] * n  and  x += results[word]
BoolToNumber(v) == IF v.type # "undefined" /\ v.value THEN 1 ELSE 0

ProtoKey == <<"_", "_", "p", "r", "o", "t", "o", "_", "_">>

\* a canonical array index: own properties with such keys are enumerated
\* first, in ascending numeric order
IsArrayIndex(k) ==
    /\ Len(k) > 0
    /\ IsDigits(k)
    /\ (Len(k) = 1 \/ k[1] # "0")
    /\ Len(k) <= 9      \* every such string is below 2^32 - 1

EmptyObject == << >>

\* Object.keys(o)
ObjKeys(o) == [i \in 1..Len(o) |-> o[i].key]

\* o.hasOwnProperty(k)
ObjHas(o, k) == \E i \in 1..Len(o) : o[i].key = k

\* o[k] for an own property k
ObjGet(o, k) == o[CHOOSE i \in 1..Len(o) : o[i].key = k].value

\* where a new own property k goes: after the array indices smaller than k
\* when k is an array index, at the end otherwise
InsertAt(o, k) ==
    IF IsArrayIndex(k)
    THEN 1 + Cardinality({ i \in 1..Len(o) :
                 IsArrayIndex(o[i].key)
                 /\ DecimalValue(o[i].key) < DecimalValue(k) })
    ELSE Len(o) + 1

\* o[k] = v.  Assigning to __proto__ goes to the inherited setter and
\* creates no own property.
ObjSet(o, k, v) ==
    IF k = ProtoKey THEN o
    ELSE IF ObjHas(o, k)
    THEN [i \in 1..Len(o) |-> IF o[i].key = k THEN [key |-> k, value |-> v] ELSE o[i]]
    ELSE LET at == InsertAt(o, k)
         IN  SubSeq(o, 1, at - 1) \o <<[key |-> k, value |-> v]>> \o SubSeq(o, at, Len(o))

---------------------------------------------------------------------------
(* The data files read at startup, and the stores they fill.               *)

\* words of the English dictionary file, in the order of its keys
W_ap == <<"a", "p">>
W_an == <<"a", "n">>
W_as == <<"a", "s">>
W_at == <<"a", "t">>
W_ax == <<"a", "x">>
W_am == <<"a", "m">>
W_ba == <<"b", "a">>
W_ab == <<"a", "b">>

\* spellings a client may submit that are no dictionary key
W_Ap == <<"A", "p">>
W_az == <<"a", "z">>
W_7 == <<"7">>

\* data/dictionaries/<lang>.json: an object whose keys are the words (every
\* value truthy); "fr" has a dictionary and no games file, "de" the reverse
DictionaryFiles ==
    [en |-> <<W_ap, W_an, W_as, W_at, W_ax, W_am, W_ba>>,
     fr |-> <<W_ab>>]

FindWordsStep(reward, required) ==
    [type |-> "findWords", rewardPerWord |-> reward, required |-> required]

QuizStep == [type |-> "quiz", rewardPerWord |-> 3, required |-> 1]

Level(letter, steps) == [letter |-> letter, steps |-> steps]

L1 == <<"1">>
L2 == <<"2">>
L3 == <<"3">>
L4 == <<"4">>
L5 == <<"5">>
L9 == <<"9">>

\* data/games/<lang>.json: level number -> level definition
GameFiles ==
    [en |-> << [key |-> L1, value |-> Level(<<"A">>, <<FindWordsStep(10, 2)>>)],
               [key |-> L2, value |-> Level(<<"b">>, <<QuizStep, FindWordsStep(5, 0),
                                                        FindWordsStep(7, 1)>>)],
               [key |-> L3, value |-> Level(<<"a">>, <<QuizStep>>)],
               [key |-> L4, value |-> Level(<<"a">>, <<FindWordsStep(10, 1)>>)],
               [key |-> L5, value |-> Level(<<"b">>, <<FindWordsStep(10, 1)>>)] >>,
     de |-> << [key |-> L1, value |-> Level(<<"a">>, <<FindWordsStep(10, 2)>>)] >>]

\* request parameters
Langs == {"en", "fr", "de"}

LevelParams == {L1, L2, L3, L4, L5, L9}

SubmitWords == {W_ap, W_Ap, W_az, W_ba, W_7, ProtoKey}

\* the smaller inputs of the two-request specification
ParLangs == {"en", "de"}

ParLevelParams == {L1, L9}

ParSubmitWords == {W_ap, W_az, W_ba}

\* all word lists of at most n words over W
Submissions(W, n) == UNION { [1..k -> W] : k \in 0..n }

---------------------------------------------------------------------------
(* Errors.                                                                 *)

NoError == [name |-> "none"]

\* new MoleculerClientError(message, code, type, data)
LanguageNotSupported ==
    [name |-> "MoleculerClientError", code |-> 404,
     message |-> "Language ${lang} is not supported",
     type |-> "", data |-> "lang: is not supported"]

LevelNotFound ==
    [name |-> "MoleculerClientError", code |-> 404,
     message |-> "Level ${level} does not exist for language ${lang}",
     type |-> "", data |-> "level: does not exist"]

DemoNotAllowed ==
    [name |-> "MoleculerClientError", code |-> 401,
     message |-> "Level ${level} is not allowed to unauthenticated users",
     type |-> "level: is not allowed for unauthenticated users", data |-> "undefined"]

\* undefined.hasOwnProperty(...)
TypeError ==
    [name |-> "TypeError",
     message |-> "Cannot read properties of undefined (reading 'hasOwnProperty')"]

NoResponse == [none |-> TRUE]

Ok(v) == [ok |-> TRUE, value |-> v, error |-> NoError]

Fail(e) == [ok |-> FALSE, value |-> NoResponse, error |-> e]

---------------------------------------------------------------------------
(* The languages service.                                                  *)

\* this.metadata.dictionaries.hasOwnProperty(lang)
HasDictionary(lang) == lang \in DOMAIN dictionaries

\* this.metadata.dictionaries[language][word]: the value of the key, an
\* inherited property for __proto__, undefined otherwise.  No lowercasing.
DictionaryEntry(language, word) ==
    IF word \in Range(dictionaries[language]) \/ word = ProtoKey
    THEN True
    ELSE Undefined

checkWord(language, word) ==
    [result |-> NewBoolean(Truthy(DictionaryEntry(language, word)))]

\* actions.get
get == Ok([languages |-> DOMAIN dictionaries, count |-> Cardinality(DOMAIN dictionaries)])

\* actions.check
check(lang, word) ==
    IF ~HasDictionary(lang) THEN Fail(LanguageNotSupported)
    ELSE Ok(checkWord(lang, word))

RECURSIVE checkMultipleLoop(_, _, _)
checkMultipleLoop(response, lang, words) ==
    IF Len(words) = 0 THEN response
    ELSE checkMultipleLoop(ObjSet(response, Head(words), checkWord(lang, Head(words)).result),
                           lang, Tail(words))

\* actions.checkMultiple
checkMultiple(lang, words) ==
    IF ~HasDictionary(lang) THEN Fail(LanguageNotSupported)
    ELSE Ok(checkMultipleLoop(EmptyObject, lang, words))

\* actions.checkLanguage
checkLanguage(lang) == Ok(HasDictionary(lang))

\* the first n elements of a sequence
Take(s, n) == SubSeq(s, 1, IF Len(s) < n THEN Len(s) ELSE n)

\* actions.someWords is called by the games service but is not among the
\* actions of the languages service source; it follows the specification's
\* wordsWithPrefix (4.1).
\* actions.someWords: up to count words of the language that start with the
\* prefix and are none of the excepted words, both compared without regard
\* to case, in the order of the dictionary
someWords(prefix, except, lang, count) ==
    IF ~HasDictionary(lang) THEN Fail(LanguageNotSupported)
    ELSE LET excluded == { toLowerCase(except[i]) : i \in 1..Len(except) }
             Qualifies(word) ==
                 /\ startsWith(toLowerCase(word), toLowerCase(prefix))
                 /\ toLowerCase(word) \notin excluded
         IN  Ok(Take(SelectSeq(dictionaries[lang], Qualifies), count))

---------------------------------------------------------------------------
(* The games service.                                                      *)

\* the limit of the suggestion request
SuggestionCount == 5

\* the first level number the demo refuses
DemoLevelLimit == 5

NoLevel == Level(<< >>, << >>)

\* a getSettings that looks the level up before it tests the language
getSettings_LevelFirst(languageExist, lang, level) ==
    IF lang \notin DOMAIN games \/ ~ObjHas(games[lang], level) THEN Fail(LevelNotFound)
    ELSE IF ~languageExist THEN Fail(LanguageNotSupported)
    ELSE Ok(ObjGet(games[lang], level))

\* methods.getSettings, after languages.checkLanguage has answered
getSettings(languageExist, lang, level) ==
    IF ~languageExist THEN Fail(LanguageNotSupported)
    ELSE IF lang \notin DOMAIN games THEN Fail(TypeError)
    ELSE IF ~ObjHas(games[lang], level) THEN Fail(LevelNotFound)
    ELSE Ok(ObjGet(games[lang], level))

\* getSettings reads this.metadata.games only once the language check passed
ReadsRegistry(languageExist) == languageExist

\* String.prototype.includes
includes(s, p) == \E i \in 1..(Len(s) - Len(p) + 1) : SubSeq(s, i, i + Len(p) - 1) = p

\* a prefix test that accepts the letter anywhere in the word
PrefixCandidate_Includes(word, letter) == includes(toLowerCase(word), toLowerCase(letter))

\* word.toLowerCase().startsWith(levelSettings.letter.toLowerCase())
PrefixCandidate(word, letter) == startsWith(toLowerCase(word), toLowerCase(letter))

\* words.forEach(word => { results[word] = ... })
RECURSIVE PrefixLoop(_, _, _)
PrefixLoop(results, words, letter) ==
    IF Len(words) = 0 THEN results
    ELSE PrefixLoop(ObjSet(results, Head(words), Prim(PrefixCandidate(Head(words), letter))),
                    Tail(words), letter)

\* a batch that is not filtered: every key of results is sent
Candidates_All(results) == ObjKeys(results)

\* Object.keys(results).filter(key => results[key])
Candidates(results) ==
    LET Keep(key) == Truthy(ObjGet(results, key))
    IN  SelectSeq(ObjKeys(results), Keep)

\* results[word] = checkInDictionary[word] && results[word]
MergeEntry(inDictionary, prefixResult) == JSAnd(inDictionary, prefixResult)

\* Object.keys(checkInDictionary).forEach(word => { results[word] = ... })
RECURSIVE MergeLoop(_, _, _)
MergeLoop(results, checkInDictionary, keys) ==
    IF Len(keys) = 0 THEN results
    ELSE MergeLoop(ObjSet(results, Head(keys),
                          MergeEntry(ObjGet(checkInDictionary, Head(keys)),
                                     ObjGet(results, Head(keys)))),
                   checkInDictionary, Tail(keys))

\* a findIndex that returns the last findWords step
findIndex_Last(steps) ==
    IF \E i \in 1..Len(steps) : steps[i].type = "findWords"
    THEN (CHOOSE i \in 1..Len(steps) :
              /\ steps[i].type = "findWords"
              /\ \A j \in (i + 1)..Len(steps) : steps[j].type # "findWords") - 1
    ELSE 0 - 1

\* levelSettings.steps.findIndex(step => step.type === "findWords")
findIndex(steps) ==
    IF \E i \in 1..Len(steps) : steps[i].type = "findWords"
    THEN (CHOOSE i \in 1..Len(steps) :
              /\ steps[i].type = "findWords"
              /\ \A j \in 1..(i - 1) : steps[j].type # "findWords") - 1
    ELSE 0 - 1

\* levelSettings.steps[stepIndex]
StepAt(steps, stepIndex) == steps[stepIndex + 1]

\* Object.keys(results).forEach(word => { score += ...; total_found += ... })
RECURSIVE ScoreLoop(_, _, _, _)
ScoreLoop(acc, results, keys, rewardPerWord) ==
    IF Len(keys) = 0 THEN acc
    ELSE ScoreLoop([score |-> acc.score
                                + BoolToNumber(ObjGet(results, Head(keys))) * rewardPerWord,
                    total_found |-> acc.total_found
                                + BoolToNumber(ObjGet(results, Head(keys)))],
                   results, Tail(keys), rewardPerWord)

\* a suggestion request that excludes nothing
SomeWordsParams_NoExcept(levelSettings, words, lang) ==
    [prefix |-> levelSettings.letter, except |-> << >>, lang |-> lang,
     count |-> SuggestionCount]

\* { prefix: levelSettings.letter, except: words, lang: lang, count: 5 }
SomeWordsParams(levelSettings, words, lang) ==
    [prefix |-> levelSettings.letter, except |-> words, lang |-> lang,
     count |-> SuggestionCount]

\* the response object of findWordsResults
Response(level, levelSettings, stepIndex, results, suggestions, score, total_found) ==
    [level |-> JSNumber(level),
     success |-> total_found >= StepAt(levelSettings.steps, stepIndex).required,
     required |-> StepAt(levelSettings.steps, stepIndex).required,
     results |-> results,
     someWords |-> suggestions,
     score |-> score,
     total_found |-> total_found,
     type |-> StepAt(levelSettings.steps, stepIndex).type]

---------------------------------------------------------------------------
(* Startup: created() of the languages and of the games service reads its  *)
(* data directory, entry by entry, in the order the directory yields them. *)

\* a directory entry: its name (base and extension), whether it is a file,
\* and whether JSON.parse accepts its content
Entry(base, ext, isFile, wellFormed) ==
    [base |-> base, ext |-> ext, isFile |-> isFile, wellFormed |-> wellFormed]

\* name.endsWith(".json")
IsJsonName(entry) == entry.ext = ".json"

\* name.replace(".json", "")
LanguageOf(entry) == entry.base

\* all orders in which a directory may yield the entries of a set
Listings(entries) ==
    { l \in [1..Cardinality(entries) -> entries] :
          \A i, j \in 1..Cardinality(entries) : l[i] = l[j] => i = j }

\* data/dictionaries: two dictionaries (each well-formed or not), a file
\* that is no dictionary and a directory
DictionaryDirs ==
    UNION { Listings({Entry("en", ".json", TRUE, e), Entry("fr", ".json", TRUE, f),
                      Entry("README", ".md", TRUE, FALSE),
                      Entry("old", ".json", FALSE, FALSE)}) : e, f \in BOOLEAN }

\* data/games: two game files, each well-formed or not
GameDirs ==
    UNION { Listings({Entry("en", ".json", TRUE, e), Entry("de", ".json", TRUE, d)})
                : e, d \in BOOLEAN }

\* the loop of created(): JSON.parse throws on a malformed file, nothing
\* catches it, and the entries after it are not read
RECURSIVE created(_, _, _)
created(store, entries, files) ==
    IF Len(entries) = 0 THEN [store |-> store, status |-> "created"]
    ELSE LET entry == Head(entries)
         IN  IF entry.isFile /\ IsJsonName(entry)
             THEN IF ~entry.wellFormed
                  THEN [store |-> store, status |-> "failed"]
                  ELSE created((LanguageOf(entry) :> files[LanguageOf(entry)]) @@ store,
                               Tail(entries), files)
             ELSE created(store, Tail(entries), files)

\* metadata.dictionaries and metadata.games before created() has run
EmptyStore == << >>

\* both services created from the data files of the model
Booted ==
    [languages |-> "created", games |-> "created",
     dictionaryDir |-> <<Entry("en", ".json", TRUE, TRUE), Entry("fr", ".json", TRUE, TRUE)>>,
     gamesDir |-> <<Entry("en", ".json", TRUE, TRUE), Entry("de", ".json", TRUE, TRUE)>>]

---------------------------------------------------------------------------
(* The users service: its collection and the create requests in flight.    *)
(* direct is history: has one of the actions the moleculer-db mixin          *)
(* registers (insert, update, remove) been called on the collection.        *)

NoUsers == [adapter |-> "nedb", docs |-> << >>, direct |-> FALSE]

\* db.mixin.js: the Mongoose adapter with the User model when MONGO_URI is
\* set, a NeDB adapter (in memory or on file) otherwise
Adapters == {"nedb", "mongoose"}

\* the parameters of create; the names of the model are lowercase already
Usernames == {"bob", "amy"}

Emails == {"bob@x.io", "amy@x.io"}

UsernameExists ==
    [name |-> "MoleculerClientError", code |-> 422,
     message |-> "Username already exists",
     type |-> "", data |-> "username: already exists"]

EmailExists ==
    [name |-> "MoleculerClientError", code |-> 422,
     message |-> "Email already exists",
     type |-> "", data |-> "email: already exists"]

\* password_confirmation differs from password
ValidationError ==
    [name |-> "ValidationError", code |-> 422,
     message |-> "Parameters validation error!",
     type |-> "VALIDATION_ERROR", data |-> "password_confirmation"]

\* this.adapter.findOne(query): is there a document with this field value.
\* The adapter serves its operations in the order they are issued, so an
\* operation takes effect where the handler issues it.
findOne(field, value) == \E i \in 1..Len(users.docs) : users.docs[i][field] = value

\* the unique indexes of the User model (username, email); NeDB has none
ViolatesUnique(doc) ==
    /\ users.adapter = "mongoose"
    /\ \E i \in 1..Len(users.docs) :
           users.docs[i].username = doc.username \/ users.docs[i].email = doc.email

\* this.adapter.insert(entity): the document is added unless a unique
\* index rejects it
insert(doc) ==
    IF ViolatesUnique(doc) THEN users ELSE [users EXCEPT !.docs = Append(@, doc)]

\* does another document than the i-th hold the username or the email of doc
ViolatesUniqueAt(i, doc) ==
    /\ users.adapter = "mongoose"
    /\ \E j \in 1..Len(users.docs) :
           /\ j # i
           /\ users.docs[j].username = doc.username \/ users.docs[j].email = doc.email

\* the adapter's update of the i-th document: its fields are set unless a
\* unique index rejects the new values
update(i, doc) ==
    IF ViolatesUniqueAt(i, doc) THEN users ELSE [users EXCEPT !.docs[i] = doc]

\* the adapter's removal of the i-th document
remove(i) ==
    [users EXCEPT !.docs = SubSeq(@, 1, i - 1) \o SubSeq(@, i + 1, Len(@))]

IdleCreate ==
    [pc |-> "idle", username |-> "", email |-> "", confirmed |-> FALSE,
     found |-> FALSE, inserted |-> FALSE, error |-> NoError]

---------------------------------------------------------------------------
(* Requests.  Each slot holds one request: its parameters, the locals of   *)
(* its handler, the ctx.call requests it has issued, and its outcome.      *)

Slots == {1, 2}

IdleSlot ==
    [kind |-> "idle", pc |-> "idle",
     lang |-> "", level |-> << >>, words |-> << >>,
     calls |-> << >>, consulted |-> FALSE,
     languageExist |-> FALSE, levelSettings |-> NoLevel,
     results |-> EmptyObject, checkInDictionary |-> EmptyObject,
     stepIndex |-> 0 - 1, score |-> 0, total_found |-> 0, someWords |-> << >>,
     response |-> NoResponse, error |-> NoError]

Begin(kind, lang, level, words) ==
    [IdleSlot EXCEPT !.kind = kind, !.lang = lang, !.level = level, !.words = words]

\* the handler returns or throws
Settle(s, res) == [s EXCEPT !.pc = "done", !.response = res.value, !.error = res.error]

\* ctx.call(action, params): the request is recorded and the handler waits.
\* Both services run in one broker, so the answer is the handler's return
\* value itself, not a serialized copy of it.
Call(s, action, params, pc) ==
    [s EXCEPT !.pc = pc, !.calls = Append(@, [action |-> action, params |-> params])]

LastCall(s) == s.calls[Len(s.calls)]

Init ==
    /\ dictionaries = DictionaryFiles
    /\ games = GameFiles
    /\ req = [r \in Slots |-> IdleSlot]
    /\ boot = Booted
    /\ users = NoUsers
    /\ creating = [c \in Slots |-> IdleCreate]

Store == <<dictionaries, games>>

\* GET /languages/get
LanguagesGet(r) ==
    /\ req[r].pc = "idle"
    /\ req' = [req EXCEPT ![r] = Settle(Begin("languages.get", "", << >>, << >>), get)]
    /\ UNCHANGED <<Store, Rest>>

\* GET /languages/:lang/check/:word
LanguagesCheck(r, L, W) ==
    /\ req[r].pc = "idle"
    /\ \E lang \in L, word \in W :
          req' = [req EXCEPT ![r] =
                     Settle(Begin("languages.check", lang, << >>, <<word>>), check(lang, word))]
    /\ UNCHANGED <<Store, Rest>>

\* POST /languages/:lang/check/multiple
LanguagesCheckMultiple(r, L, S) ==
    /\ req[r].pc = "idle"
    /\ \E lang \in L, words \in S :
          req' = [req EXCEPT ![r] =
                     Settle(Begin("languages.checkMultiple", lang, << >>, words),
                            checkMultiple(lang, words))]
    /\ UNCHANGED <<Store, Rest>>

\* broker call of languages.checkLanguage
LanguagesCheckLanguage(r, L) ==
    /\ req[r].pc = "idle"
    /\ \E lang \in L :
          req' = [req EXCEPT ![r] =
                     Settle(Begin("languages.checkLanguage", lang, << >>, << >>),
                            checkLanguage(lang))]
    /\ UNCHANGED <<Store, Rest>>

\* games.settings: the handler runs up to the await of getSettings
Settings(r, L, V) ==
    /\ req[r].pc = "idle"
    /\ \E lang \in L, level \in V :
          req' = [req EXCEPT ![r] =
                     Call(Begin("games.settings", lang, level, << >>),
                          "languages.checkLanguage", [lang |-> lang], "checkLanguage")]
    /\ UNCHANGED <<Store, Rest>>

\* games.demoSettings: level >= 5 is refused, otherwise as settings
DemoSettings(r, L, V) ==
    /\ req[r].pc = "idle"
    /\ \E lang \in L, level \in V :
          req' = [req EXCEPT ![r] =
                     IF JSGreaterEq(level, DemoLevelLimit)
                     THEN Settle(Begin("games.demoSettings", lang, level, << >>),
                                 Fail(DemoNotAllowed))
                     ELSE Call(Begin("games.demoSettings", lang, level, << >>),
                               "languages.checkLanguage", [lang |-> lang], "checkLanguage")]
    /\ UNCHANGED <<Store, Rest>>

\* games.findWordsResults: the handler runs up to the await of getSettings
FindWordsResults(r, L, V, S) ==
    /\ req[r].pc = "idle"
    /\ \E lang \in L, level \in V, words \in S :
          req' = [req EXCEPT ![r] =
                     Call(Begin("games.findWordsResults", lang, level, words),
                          "languages.checkLanguage", [lang |-> lang], "checkLanguage")]
    /\ UNCHANGED <<Store, Rest>>

\* the languages service answers checkLanguage
HandleCheckLanguage(r) ==
    /\ req[r].pc = "checkLanguage"
    /\ LET s == req[r]
       IN  req' = [req EXCEPT ![r] =
                      [s EXCEPT !.pc = "getSettings",
                                !.languageExist = checkLanguage(LastCall(s).params.lang).value]]
    /\ UNCHANGED <<Store, Rest>>

\* getSettings resumes: it throws, or returns the level definition
GetSettingsResume(r) ==
    /\ req[r].pc = "getSettings"
    /\ LET s == req[r]
           res == getSettings(s.languageExist, s.lang, s.level)
           t == [s EXCEPT !.consulted = ReadsRegistry(s.languageExist)]
       IN  req' = [req EXCEPT ![r] =
                      IF ~res.ok \/ s.kind # "games.findWordsResults"
                      THEN Settle(t, res)
                      ELSE [t EXCEPT !.pc = "prefix", !.levelSettings = res.value]]
    /\ UNCHANGED <<Store, Rest>>

\* findWordsResults resumes: prefix test, then the call of checkMultiple
PrefixFilter(r) ==
    /\ req[r].pc = "prefix"
    /\ LET s == req[r]
           results == PrefixLoop(EmptyObject, s.words, s.levelSettings.letter)
       IN  req' = [req EXCEPT ![r] =
                      Call([s EXCEPT !.results = results],
                           "languages.checkMultiple",
                           [lang |-> s.lang, words |-> Candidates(results)],
                           "checkMultiple")]
    /\ UNCHANGED <<Store, Rest>>

\* a checkMultiple that also records every word it was asked about as a
\* key of the dictionary
HandleCheckMultiple_Caching(r) ==
    /\ req[r].pc = "checkMultiple"
    /\ LET s == req[r]
           lang == LastCall(s).params.lang
           words == LastCall(s).params.words
           res == checkMultiple(lang, words)
           IsNew(word) == word \notin Range(dictionaries[lang])
       IN  /\ req' = [req EXCEPT ![r] =
                         IF ~res.ok THEN Settle(s, res)
                         ELSE [s EXCEPT !.pc = "merge", !.checkInDictionary = res.value]]
           /\ dictionaries' =
                  IF ~res.ok THEN dictionaries
                  ELSE [dictionaries EXCEPT ![lang] = @ \o SelectSeq(words, IsNew)]
    /\ UNCHANGED <<games, Rest>>

\* the languages service answers checkMultiple
HandleCheckMultiple(r) ==
    /\ req[r].pc = "checkMultiple"
    /\ LET s == req[r]
           res == checkMultiple(LastCall(s).params.lang, LastCall(s).params.words)
       IN  req' = [req EXCEPT ![r] =
                      IF ~res.ok THEN Settle(s, res)
                      ELSE [s EXCEPT !.pc = "merge", !.checkInDictionary = res.value]]
    /\ UNCHANGED <<Store, Rest>>

\* findWordsResults resumes: merge, score, then the call of someWords
MergeAndScore(r) ==
    /\ req[r].pc = "merge"
    /\ LET s == req[r]
           results == MergeLoop(s.results, s.checkInDictionary, ObjKeys(s.checkInDictionary))
           stepIndex == findIndex(s.levelSettings.steps)
           acc == ScoreLoop([score |-> 0, total_found |-> 0], results, ObjKeys(results),
                            StepAt(s.levelSettings.steps, stepIndex).rewardPerWord)
       IN  req' = [req EXCEPT ![r] =
                      IF stepIndex > 0 - 1
                      THEN Call([s EXCEPT !.results = results, !.stepIndex = stepIndex,
                                          !.score = acc.score,
                                          !.total_found = acc.total_found],
                                "languages.someWords",
                                SomeWordsParams(s.levelSettings, s.words, s.lang),
                                "someWords")
                      ELSE Settle([s EXCEPT !.results = results, !.stepIndex = stepIndex],
                                  Fail(LevelNotFound))]
    /\ UNCHANGED <<Store, Rest>>

\* the languages service answers someWords
HandleSomeWords(r) ==
    /\ req[r].pc = "someWords"
    /\ LET s == req[r]
           p == LastCall(s).params
           res == someWords(p.prefix, p.except, p.lang, p.count)
       IN  req' = [req EXCEPT ![r] =
                      IF ~res.ok THEN Settle(s, res)
                      ELSE [s EXCEPT !.pc = "respond", !.someWords = res.value]]
    /\ UNCHANGED <<Store, Rest>>

\* findWordsResults resumes and returns its response
Respond(r) ==
    /\ req[r].pc = "respond"
    /\ LET s == req[r]
       IN  req' = [req EXCEPT ![r] =
                      Settle(s, Ok(Response(s.level, s.levelSettings, s.stepIndex, s.results,
                                            s.someWords, s.score, s.total_found)))]
    /\ UNCHANGED <<Store, Rest>>

\* the outcome has been delivered; the slot takes the next request
Finish(r) ==
    /\ req[r].pc = "done"
    /\ req' = [req EXCEPT ![r] = IdleSlot]
    /\ UNCHANGED <<Store, Rest>>

Step(r, L, V, W, S) ==
    \/ LanguagesGet(r)
    \/ LanguagesCheck(r, L, W)
    \/ LanguagesCheckMultiple(r, L, S)
    \/ LanguagesCheckLanguage(r, L)
    \/ Settings(r, L, V)
    \/ DemoSettings(r, L, V)
    \/ FindWordsResults(r, L, V, S)
    \/ HandleCheckLanguage(r)
    \/ GetSettingsResume(r)
    \/ PrefixFilter(r)
    \/ HandleCheckMultiple(r)
    \/ MergeAndScore(r)
    \/ HandleSomeWords(r)
    \/ Respond(r)
    \/ Finish(r)

\* one request at a time
Next == Step(1, Langs, LevelParams, SubmitWords, Submissions(SubmitWords, MaxWords))

Spec == Init /\ [][Next]_vars

\* two requests in flight, interleaved at their await points
NextPar ==
    \E r \in Slots :
        Step(r, ParLangs, ParLevelParams, ParSubmitWords,
             Submissions(ParSubmitWords, ParMaxWords))

SpecPar == Init /\ [][NextPar]_vars

---------------------------------------------------------------------------
(* Startup as a specification of its own: any listing of the two data      *)
(* directories, the two services created in either order.                  *)

InitLoad ==
    /\ dictionaries = EmptyStore
    /\ games = EmptyStore
    /\ req = [r \in Slots |-> IdleSlot]
    /\ \E d \in DictionaryDirs, g \in GameDirs :
           boot = [languages |-> "new", games |-> "new", dictionaryDir |-> d, gamesDir |-> g]
    /\ users = NoUsers
    /\ creating = [c \in Slots |-> IdleCreate]

\* created() of the languages service
LanguagesCreated ==
    /\ boot.languages = "new"
    /\ LET res == created(dictionaries, boot.dictionaryDir, DictionaryFiles)
       IN  /\ dictionaries' = res.store
           /\ boot' = [boot EXCEPT !.languages = res.status]
    /\ UNCHANGED <<games, req, users, creating>>

\* created() of the games service
GamesCreated ==
    /\ boot.games = "new"
    /\ LET res == created(games, boot.gamesDir, GameFiles)
       IN  /\ games' = res.store
           /\ boot' = [boot EXCEPT !.games = res.status]
    /\ UNCHANGED <<dictionaries, req, users, creating>>

NextLoad == LanguagesCreated \/ GamesCreated

SpecLoad == InitLoad /\ [][NextLoad]_vars

---------------------------------------------------------------------------
(* The users service: create requests, interleaved at their awaits.        *)

InitUsers ==
    /\ dictionaries = DictionaryFiles
    /\ games = GameFiles
    /\ req = [r \in Slots |-> IdleSlot]
    /\ boot = Booted
    /\ \E a \in Adapters : users = [NoUsers EXCEPT !.adapter = a]
    /\ creating = [c \in Slots |-> IdleCreate]

InFlight == { c \in Slots : creating[c].pc \notin {"idle", "done"} }

SettleCreate(s, e) == [s EXCEPT !.pc = "done", !.error = e]

\* users.create: the handler runs up to the await of validateEntity
Create(c) ==
    /\ creating[c].pc = "idle"
    /\ Len(users.docs) + Cardinality(InFlight) < MaxUsers
    /\ \E username \in Usernames, email \in Emails, confirmed \in BOOLEAN :
          creating' = [creating EXCEPT ![c] =
                          [IdleCreate EXCEPT !.pc = "validateEntity", !.username = username,
                                             !.email = email, !.confirmed = confirmed]]
    /\ UNCHANGED <<Store, req, boot, users>>

\* validation has answered: a validation error, or the lookup of the username
Validated(c) ==
    /\ creating[c].pc = "validateEntity"
    /\ LET s == creating[c]
       IN  creating' = [creating EXCEPT ![c] =
                           IF ~s.confirmed THEN SettleCreate(s, ValidationError)
                           ELSE [s EXCEPT !.pc = "findUsername",
                                          !.found = findOne("username", s.username)]]
    /\ UNCHANGED <<Store, req, boot, users>>

\* the username lookup has answered: 422, or the lookup of the email
UsernameChecked(c) ==
    /\ creating[c].pc = "findUsername"
    /\ LET s == creating[c]
       IN  creating' = [creating EXCEPT ![c] =
                           IF s.found THEN SettleCreate(s, UsernameExists)
                           ELSE [s EXCEPT !.pc = "findEmail",
                                          !.found = findOne("email", s.email)]]
    /\ UNCHANGED <<Store, req, boot, users>>

\* the email lookup has answered: 422, or the insert (not awaited) and the
\* await of entityChanged
EmailChecked(c) ==
    /\ creating[c].pc = "findEmail"
    /\ LET s == creating[c]
           doc == [username |-> s.username, email |-> s.email]
       IN  IF s.found
           THEN /\ creating' = [creating EXCEPT ![c] = SettleCreate(s, EmailExists)]
                /\ users' = users
           ELSE /\ creating' = [creating EXCEPT ![c] =
                                    [s EXCEPT !.pc = "entityChanged",
                                              !.inserted = ~ViolatesUnique(doc)]]
                /\ users' = insert(doc)
    /\ UNCHANGED <<Store, req, boot>>

\* entityChanged has answered: the handler returns
Created(c) ==
    /\ creating[c].pc = "entityChanged"
    /\ creating' = [creating EXCEPT ![c] = SettleCreate(creating[c], NoError)]
    /\ UNCHANGED <<Store, req, boot, users>>

\* the outcome has been delivered; the slot takes the next request
FinishCreate(c) ==
    /\ creating[c].pc = "done"
    /\ creating' = [creating EXCEPT ![c] = IdleCreate]
    /\ UNCHANGED <<Store, req, boot, users>>

\* users.insert, registered by the moleculer-db mixin: the entity passes the
\* entityValidator and goes to the adapter, with none of create's lookups.
\* The handler reads nothing of the collection and writes it once, so it is
\* one step.
Insert ==
    /\ Len(users.docs) + Cardinality(InFlight) < MaxUsers
    /\ \E username \in Usernames, email \in Emails, confirmed \in BOOLEAN :
          LET doc == [username |-> username, email |-> email]
              written == IF confirmed THEN insert(doc) ELSE users
          IN  users' = [written EXCEPT !.direct = TRUE]
    /\ UNCHANGED <<Store, req, boot, creating>>

\* users.update, registered by the mixin: the fields given are set on the
\* document with the id given
Update ==
    /\ \E i \in 1..Len(users.docs), username \in Usernames, email \in Emails :
          LET doc == [username |-> username, email |-> email]
          IN  users' = [update(i, doc) EXCEPT !.direct = TRUE]
    /\ UNCHANGED <<Store, req, boot, creating>>

\* users.remove, registered by the mixin: the document with the id given is
\* deleted
Remove ==
    /\ \E i \in 1..Len(users.docs) :
          users' = [remove(i) EXCEPT !.direct = TRUE]
    /\ UNCHANGED <<Store, req, boot, creating>>

NextUsers ==
    \/ \E c \in Slots :
           \/ Create(c)
           \/ Validated(c)
           \/ UsernameChecked(c)
           \/ EmailChecked(c)
           \/ Created(c)
           \/ FinishCreate(c)
    \/ Insert
    \/ Update
    \/ Remove

SpecUsers == InitUsers /\ [][NextUsers]_vars

---------------------------------------------------------------------------
(* The claims.  They are stated over the data files the stores were loaded *)
(* from and over the parameters and outcome of each request.               *)

Scored(r) ==
    /\ req[r].kind = "games.findWordsResults"
    /\ req[r].pc = "done"
    /\ req[r].error = NoError

Failed(r) == req[r].pc = "done" /\ req[r].error # NoError

Supported(lang) == lang \in DOMAIN DictionaryFiles

LevelRecorded(lang, level) == lang \in DOMAIN GameFiles /\ ObjHas(GameFiles[lang], level)

LevelOf(lang, level) == ObjGet(GameFiles[lang], level)

\* the level's required letter, compared without regard to case
StartsWithLetter(word, letter) ==
    /\ Len(word) >= Len(letter)
    /\ \A i \in 1..Len(letter) : LowerChar(word[i]) = LowerChar(letter[i])

InWordSet(lang, word) == toLowerCase(word) \in Range(DictionaryFiles[lang])

HasFindWords(level) == \E i \in 1..Len(level.steps) : level.steps[i].type = "findWords"

FirstFindWords(level) ==
    level.steps[CHOOSE i \in 1..Len(level.steps) :
                    /\ level.steps[i].type = "findWords"
                    /\ \A j \in 1..(i - 1) : level.steps[j].type # "findWords"]

IsTrue(results, word) == ObjHas(results, word) /\ ObjGet(results, word) = True

ValidKeys(results) == { i \in 1..Len(results) : results[i].value = True }

\* the submitted spellings in the order of their first appearance
FirstAppearances(words) ==
    LET First(i) == \A j \in 1..(i - 1) : words[j] # words[i]
        idx == { i \in 1..Len(words) : First(i) }
        Nth(n) == CHOOSE i \in idx : Cardinality({ j \in idx : j < i }) = n - 1
    IN  [n \in 1..Cardinality(idx) |-> words[Nth(n)]]

GamesRequest(r) ==
    req[r].kind \in {"games.settings", "games.demoSettings", "games.findWordsResults"}

CallsOf(r, action) == { i \in 1..Len(req[r].calls) : req[r].calls[i].action = action }

\* C1: in a successful findWordsResults, results[w] is true exactly for the
\* submitted words that start with the level's letter and are in the
\* language's word set.
C1_ResultIffPrefixAndDictionary ==
    \A r \in Slots :
        Scored(r) =>
            \A i \in 1..Len(req[r].words) :
                LET w == req[r].words[i]
                IN  IsTrue(req[r].response.results, w)
                        <=> /\ StartsWithLetter(w, LevelOf(req[r].lang, req[r].level).letter)
                            /\ InWordSet(req[r].lang, w)

\* C2: check and checkMultiple report a word as present exactly when its
\* lowercase form is in the language's word set.
C2_MembershipIgnoresCase ==
    \A r \in Slots :
        /\ (req[r].kind = "languages.check" /\ req[r].pc = "done" /\ req[r].error = NoError)
               => (ToJSON(req[r].response.result)
                       <=> InWordSet(req[r].lang, req[r].words[1]))
        /\ (req[r].kind = "languages.checkMultiple" /\ req[r].pc = "done"
               /\ req[r].error = NoError)
               => \A i \in 1..Len(req[r].words) :
                      LET w == req[r].words[i]
                      IN  (ObjHas(req[r].response, w) /\ ToJSON(ObjGet(req[r].response, w)))
                              <=> InWordSet(req[r].lang, w)

\* C3: for an unsupported language, getSettings and findWordsResults fail
\* with LanguageNotSupported whatever the level and the words, without
\* reading the level registry and without any call but checkLanguage.
C3_LanguageCheckedFirst ==
    \A r \in Slots :
        (GamesRequest(r) /\ ~Supported(req[r].lang)) =>
            /\ ~req[r].consulted
            /\ \A i \in 1..Len(req[r].calls) :
                   req[r].calls[i].action = "languages.checkLanguage"
            /\ (req[r].pc = "done" /\ Len(req[r].calls) > 0)
                   => req[r].error = LanguageNotSupported

C3_Witness ==
    \E r \in Slots :
        /\ req[r].kind = "games.findWordsResults"
        /\ req[r].pc = "done"
        /\ ~Supported(req[r].lang)
        /\ ~LevelRecorded(req[r].lang, req[r].level)
        /\ Len(req[r].words) > 0
        /\ req[r].error = LanguageNotSupported

\* C4: for a supported language and a level the registry has not recorded
\* for it, getSettings and findWordsResults fail with LevelNotFound.
C4_MissingLevelIsLevelNotFound ==
    \A r \in Slots :
        (GamesRequest(r) /\ req[r].pc = "done" /\ Len(req[r].calls) > 0
           /\ Supported(req[r].lang) /\ ~LevelRecorded(req[r].lang, req[r].level))
            => req[r].error = LevelNotFound

\* C5: for a recorded level with no findWords step, findWordsResults fails
\* with a failure that differs from the LevelNotFound of an absent level.
C5_StepNotApplicableIsDistinct ==
    \A r \in Slots :
        (req[r].kind = "games.findWordsResults" /\ req[r].pc = "done"
           /\ Supported(req[r].lang) /\ LevelRecorded(req[r].lang, req[r].level)
           /\ ~HasFindWords(LevelOf(req[r].lang, req[r].level)))
            => (Failed(r) /\ req[r].error # LevelNotFound)

\* C6: in a successful findWordsResults, with step the first findWords step
\* of the level: total_found is the number of valid entries, score is
\* total_found * step.rewardPerWord, success is total_found >= step.required,
\* and required and type echo the step.
C6_ScoreArithmetic ==
    \A r \in Slots :
        Scored(r) =>
            LET step == FirstFindWords(LevelOf(req[r].lang, req[r].level))
                resp == req[r].response
            IN  /\ resp.total_found = Cardinality(ValidKeys(resp.results))
                /\ resp.score = resp.total_found * step.rewardPerWord
                /\ resp.success <=> (resp.total_found >= step.required)
                /\ resp.required = step.required
                /\ resp.type = step.type

C6_Witness ==
    \E r \in Slots :
        /\ Scored(r)
        /\ req[r].level = L2
        /\ req[r].response.total_found = 1
        /\ req[r].response.score = 5
        /\ req[r].response.success

\* C7: the keys of results are the submitted spellings, one key each, in
\* the order of their first appearance in the submission.
C7_KeysInSubmissionOrder ==
    \A r \in Slots :
        Scored(r) => ObjKeys(req[r].response.results) = FirstAppearances(req[r].words)

\* C8: a successful findWordsResults issues one suggestion request, with
\* prefix the level's letter, except the submitted words and count 5; its
\* someWords holds at most 5 words, none of them a submitted word and each
\* starting with the letter, both without regard to case.
C8_Suggestions ==
    \A r \in Slots :
        Scored(r) =>
            LET letter == LevelOf(req[r].lang, req[r].level).letter
                sent == CallsOf(r, "languages.someWords")
                some == req[r].response.someWords
            IN  /\ Cardinality(sent) = 1
                /\ \A i \in sent :
                       req[r].calls[i].params =
                           [prefix |-> letter, except |-> req[r].words,
                            lang |-> req[r].lang, count |-> 5]
                /\ Len(some) <= 5
                /\ \A i \in 1..Len(some) :
                       /\ StartsWithLetter(some[i], letter)
                       /\ \A j \in 1..Len(req[r].words) :
                              toLowerCase(some[i]) # toLowerCase(req[r].words[j])

C8_Witness ==
    \E r \in Slots :
        /\ Scored(r)
        /\ W_Ap \in Range(req[r].words)
        /\ Len(req[r].response.someWords) = 5
        /\ W_ap \notin Range(req[r].response.someWords)

\* C9: when every submitted word fails the prefix test, a successful
\* findWordsResults has score 0, total_found 0, every entry false and
\* success = (0 >= required).
C9_NoCandidateNoScore ==
    \A r \in Slots :
        (/\ Scored(r)
         /\ \A i \in 1..Len(req[r].words) :
                ~StartsWithLetter(req[r].words[i], LevelOf(req[r].lang, req[r].level).letter))
            => LET resp == req[r].response
                   step == FirstFindWords(LevelOf(req[r].lang, req[r].level))
               IN  /\ resp.score = 0
                   /\ resp.total_found = 0
                   /\ \A i \in 1..Len(resp.results) : resp.results[i].value = False
                   /\ resp.success <=> (0 >= step.required)

C9_Witness ==
    \E r \in Slots :
        /\ Scored(r)
        /\ req[r].level = L1
        /\ W_ba \in Range(req[r].words)
        /\ \A i \in 1..Len(req[r].words) : ~StartsWithLetter(req[r].words[i], <<"A">>)
        /\ req[r].response.score = 0
        /\ ~req[r].response.success

\* the outcome of a finished findWordsResults, without someWords
Outcome(r) ==
    IF req[r].error # NoError THEN [error |-> req[r].error]
    ELSE [score |-> req[r].response.score, total_found |-> req[r].response.total_found,
          success |-> req[r].response.success, results |-> req[r].response.results]

\* C10: no request changes the dictionary store or the level registry, and
\* two findWordsResults requests with the same arguments have the same
\* score, total_found, success and results, however they were interleaved.
C10_StoresImmutableAndIdempotent ==
    /\ dictionaries = DictionaryFiles
    /\ games = GameFiles
    /\ \A r1, r2 \in Slots :
           (/\ req[r1].kind = "games.findWordsResults" /\ req[r1].pc = "done"
            /\ req[r2].kind = "games.findWordsResults" /\ req[r2].pc = "done"
            /\ req[r1].lang = req[r2].lang
            /\ req[r1].level = req[r2].level
            /\ req[r1].words = req[r2].words)
               => Outcome(r1) = Outcome(r2)

C10_Witness ==
    /\ Scored(1)
    /\ req[1].response.total_found >= 1
    /\ req[2].kind = "games.findWordsResults"
    /\ req[2].pc = "done"
    /\ req[2].lang = req[1].lang
    /\ req[2].level = req[1].level
    /\ req[2].words = req[1].words

\* the languages of a directory whose file JSON.parse accepts, and those
\* whose file it rejects
WellFormedIn(dir) ==
    { dir[i].base : i \in { j \in 1..Len(dir) :
                              dir[j].isFile /\ dir[j].ext = ".json" /\ dir[j].wellFormed } }

MalformedIn(dir) ==
    { dir[i].base : i \in { j \in 1..Len(dir) :
                              dir[j].isFile /\ dir[j].ext = ".json" /\ ~dir[j].wellFormed } }

\* C11: once a service has run its startup loading, startup was not
\* aborted, every language with a well-formed file is loaded, wherever it
\* stands in the directory, and every language with a malformed file is
\* left out.
C11_MalformedFileIsSkipped ==
    /\ boot.languages # "new"
           => /\ boot.languages = "created"
              /\ WellFormedIn(boot.dictionaryDir) \subseteq DOMAIN dictionaries
              /\ MalformedIn(boot.dictionaryDir) \cap DOMAIN dictionaries = {}
    /\ boot.games # "new"
           => /\ boot.games = "created"
              /\ WellFormedIn(boot.gamesDir) \subseteq DOMAIN games
              /\ MalformedIn(boot.gamesDir) \cap DOMAIN games = {}

\* C12: the words a findWordsResults request sends to languages.checkMultiple
\* are exactly the submitted words that start with the level's letter,
\* without regard to case; the batch is already filtered when the call is
\* issued, and there is one such call at most.
C12_OnlyCandidatesSent ==
    \A r \in Slots :
        req[r].kind = "games.findWordsResults" =>
            /\ Cardinality(CallsOf(r, "languages.checkMultiple")) <= 1
            /\ \A i \in CallsOf(r, "languages.checkMultiple") :
                   Range(req[r].calls[i].params.words)
                       = { w \in Range(req[r].words) :
                               StartsWithLetter(w, LevelOf(req[r].lang, req[r].level).letter) }

C12_Witness ==
    \E r \in Slots :
        /\ req[r].kind = "games.findWordsResults"
        /\ req[r].pc = "checkMultiple"
        /\ W_ba \in Range(req[r].words)
        /\ LastCall(req[r]).action = "languages.checkMultiple"
        /\ LastCall(req[r]).params.words = <<W_Ap>>

\* the n lowest-numbered levels recorded for a language
FirstLevels(lang, n) ==
    LET keys == Range(ObjKeys(GameFiles[lang]))
    IN  { k \in keys : Cardinality({ j \in keys : JSNumber(j) < JSNumber(k) }) < n }

\* a level number above each of the first n levels of the language
BeyondFirst(lang, level, n) ==
    \A k \in FirstLevels(lang, n) : JSNumber(level) > JSNumber(k)

\* C13: demoSettings answers a request for one of the first five levels of
\* a supported language as settings does, with the level's definition, and
\* refuses any level beyond the first five with the 401 error before any
\* language or level lookup.
C13_DemoFirstFiveLevels ==
    \A r \in Slots :
        (/\ req[r].kind = "games.demoSettings"
         /\ req[r].pc = "done"
         /\ Supported(req[r].lang)
         /\ req[r].lang \in DOMAIN GameFiles)
            => /\ req[r].level \in FirstLevels(req[r].lang, 5)
                   => /\ req[r].error = NoError
                      /\ req[r].response = LevelOf(req[r].lang, req[r].level)
               /\ BeyondFirst(req[r].lang, req[r].level, 5)
                   => /\ req[r].error = DemoNotAllowed
                      /\ req[r].calls = << >>
                      /\ ~req[r].consulted

\* only create requests have been made: none of the mixin's insert, update
\* and remove has been called
OnlyCreates == ~users.direct

\* C14: after create requests only, the users collection never holds two
\* documents with the same username or with the same email, and a create
\* that failed with a 422 error has inserted nothing.
C14_UsernamesAndEmailsUnique ==
    /\ OnlyCreates =>
           \A i, j \in 1..Len(users.docs) :
               i # j => /\ users.docs[i].username # users.docs[j].username
                        /\ users.docs[i].email # users.docs[j].email
    /\ \A c \in Slots :
           (creating[c].pc = "done" /\ creating[c].error \in {UsernameExists, EmailExists})
               => ~creating[c].inserted

====
